---- MODULE Spec2Model ----
(***************************************************************************)
(* State-machine model of asammdf/gui/widgets/viewbox.py: the viewport     *)
(* ViewBoxWithCursor (mouse mode, zoom gesture, view range, emitted        *)
(* signals) and its context menu ViewBoxMenu (checked entries, valid       *)
(* flag).  Every handler runs to completion on the GUI thread, so each     *)
(* handler is one atomic action.                                           *)
(*                                                                         *)
(* Encodings.  Python None is the empty tuple; a present value v is <<v>>  *)
(* (a point is <<x, y>>).  Coordinates are integers in fixed-point view    *)
(* units.  A scale factor is carried as its exponent k of 1.02, so the     *)
(* factor is 1 exactly when k = 0.  Strings handed to the legacy setter    *)
(* are tuples of one-character strings, so that lower() is computed.       *)
(***************************************************************************)
EXTENDS Integers, Sequences, FiniteSets, TLC

VARIABLES
    mouseMode,     \* self.state["mouseMode"]
    mouseEnabled,  \* self.state["mouseEnabled"], <<x, y>> of BOOLEAN
    aspectLocked,  \* self.state["aspectLocked"] is not False
    zoom,          \* self.zoom: None or <<combined key value>>
    zoom_start,    \* self.zoom_start: None or the point <<x, y>>
    viewRange,     \* <<<<x0, x1>>, <<y0, y1>>>>, the visible range
    menu,          \* ViewBoxMenu: [checked : <<pan, cursor, rect>>, valid]
    held,          \* keys physically held down (environment)
    viewOps,       \* number of handlers so far that changed the view range
    lastEv,        \* the handler that has just run and its arguments, or Idle
    pre,           \* the viewport fields as they were when it started
    trace,         \* what it emitted and called, in order
    err            \* TRUE iff it raised

vars == <<mouseMode, mouseEnabled, aspectLocked, zoom, zoom_start, viewRange,
          menu, held, viewOps, lastEv, pre, trace, err>>

None == <<>>

-----------------------------------------------------------------------------
(* Bounds of the model *)

\* how many handlers in one run may change the view range
MaxViewOps == 1

\* width and height of the viewport in scene pixels
ViewPixels == 4

-----------------------------------------------------------------------------
(* Program constants *)

PanMode == 3
CursorMode == 2
RectMode == 1

\* Qt.KeyboardModifier and Qt.Key values combined by QKeyCombination
ShiftModifier == 33554432
AltModifier == 134217728
Key_Shift == 16777248
Key_Alt == 16777251
Key_A == 65

\* Qt.MouseButton values
LeftButton == 1
RightButton == 2
MiddleButton == 4
BackButton == 8

RECURSIVE BitOr(_, _)
BitOr(a, b) ==
    IF a = 0 THEN b
    ELSE IF b = 0 THEN a
    ELSE (IF a % 2 = 1 \/ b % 2 = 1 THEN 1 ELSE 0) + 2 * BitOr(a \div 2, b \div 2)

RECURSIVE BitAnd(_, _)
BitAnd(a, b) ==
    IF a = 0 \/ b = 0 THEN 0
    ELSE (IF a % 2 = 1 /\ b % 2 = 1 THEN 1 ELSE 0) + 2 * BitAnd(a \div 2, b \div 2)

\* QKeyCombination(modifiers, key).toCombined(): int(modifiers) | int(key)
toCombined(modifiers, key) == BitOr(modifiers, key)

X_zoom == toCombined(ShiftModifier, Key_Shift)
Y_zoom == toCombined(AltModifier, Key_Alt)
XY_zoom ==
    << toCombined(BitOr(ShiftModifier, AltModifier), Key_Alt),
       toCombined(BitOr(ShiftModifier, AltModifier), Key_Shift) >>

-----------------------------------------------------------------------------
(* The viewport primitive (pg.ViewBox) as this file uses it *)

Width(r) == r[2] - r[1]

\* inverse of childGroup.transform(): view units per scene pixel on each axis;
\* scene y grows downwards, view y upwards
UnitsPerPixel(vr) == << Width(vr[1]) \div ViewPixels, Width(vr[2]) \div ViewPixels >>

\* tr.map(p) - tr.map(Point(0, 0)) for the inverted transform tr
invMapDelta(vr, d) ==
    << d[1] * UnitsPerPixel(vr)[1], -(d[2] * UnitsPerPixel(vr)[2]) >>

\* mapSceneToView(p), also fn.invertQTransform(childGroup.transform()).map(p)
mapSceneToView(vr, p) ==
    << vr[1][1] + p[1] * UnitsPerPixel(vr)[1],
       vr[2][2] - p[2] * UnitsPerPixel(vr)[2] >>

\* translateBy(x=x, y=y): an axis given None keeps its range
translateBy(vr, x, y) ==
    << IF x /= None THEN << vr[1][1] + x[1], vr[1][2] + x[1] >> ELSE vr[1],
       IF y /= None THEN << vr[2][1] + y[1], vr[2][2] + y[1] >> ELSE vr[2] >>

\* v * 1.02^k for the exponent k, rounded to the unit after every step
RECURSIVE scaleLen(_, _)
scaleLen(v, k) ==
    IF k = 0 THEN v
    ELSE IF k > 0 THEN scaleLen((v * 51) \div 50, k - 1)
    ELSE scaleLen((v * 50) \div 51, k + 1)

\* center + (v - center) * scale
scaleCoord(c, v, k) == c + scaleLen(v - c, k)

\* scaleBy(x=x, y=y, center=center): an axis given None is not affected; under
\* aspect lock a missing factor is taken from the other axis but its axis
\* stays unaffected
scaleBy(vr, x, y, center) ==
    << IF x /= None
         THEN << scaleCoord(center[1], vr[1][1], x[1]),
                 scaleCoord(center[1], vr[1][2], x[1]) >>
         ELSE vr[1],
       IF y /= None
         THEN << scaleCoord(center[2], vr[2][1], y[1]),
                 scaleCoord(center[2], vr[2][2], y[1]) >>
         ELSE vr[2] >>

\* setXRange(lo, hi, padding=0)
setXRange(vr, lo, hi) == << <<lo, hi>>, vr[2] >>

-----------------------------------------------------------------------------
(* Entries of the trace *)

\* signal.emit(arg); zs is self.zoom_start as a listener sees it at that time
Emit(sig, arg, zs) == [op |-> "emit", name |-> sig, arg |-> arg, zs |-> zs]

\* a call of a viewport primitive
Call(fn, arg) == [op |-> "call", name |-> fn, arg |-> arg, zs |-> None]

Emits(tr, sig) == {i \in 1..Len(tr) : tr[i].op = "emit" /\ tr[i].name = sig}
Calls(tr, fn) == {i \in 1..Len(tr) : tr[i].op = "call" /\ tr[i].name = fn}

-----------------------------------------------------------------------------
(* ViewBoxMenu *)

\* QAction.setChecked(True) on entry i of the exclusive QActionGroup
setChecked(checked, i) == [j \in 1..3 |-> j = i]

\* updateState that leaves the valid flag as it finds it
updateState_keepFlag(m, mode) ==
    [m EXCEPT !.checked =
        setChecked(m.checked,
                   IF mode = PanMode THEN 1 ELSE IF mode = CursorMode THEN 2 ELSE 3)]

\* ViewBoxMenu.updateState
updateState(m, mode) ==
    [checked |->
        IF mode = PanMode THEN setChecked(m.checked, 1)
        ELSE IF mode = CursorMode THEN setChecked(m.checked, 2)
        ELSE setChecked(m.checked, 3),
     valid |-> TRUE]

\* viewStateChanged that only marks the menu dirty and leaves the refresh to popup
viewStateChanged_lazy(m, mode) == [m EXCEPT !.valid = FALSE]

\* ViewBoxMenu.viewStateChanged, the slot of sigStateChanged
viewStateChanged(m, mode) == updateState([m EXCEPT !.valid = FALSE], mode)

\* the menu after the signals of tr have been delivered to its slot
deliver(m, tr, mode) ==
    IF Emits(tr, "sigStateChanged") /= {} THEN viewStateChanged(m, mode) ELSE m

\* ViewBoxMenu.__init__ up to its closing updateState()
menuInit(mode) ==
    updateState([checked |-> <<FALSE, FALSE, FALSE>>, valid |-> FALSE], mode)

-----------------------------------------------------------------------------
(* Mode setters *)

ValidModes == {PanMode, CursorMode, RectMode}

\* setMouseMode without the check of the mode
setMouseModeResult_unchecked(mode) ==
    [raised |-> FALSE, mode |-> mode,
     trace |-> << Emit("sigStateChanged", <<>>, zoom_start) >>]

\* setMouseMode(mode): the mode stored, the signals emitted, raised or not
setMouseModeResult(mode) ==
    IF mode \notin ValidModes
      THEN [raised |-> TRUE, mode |-> mouseMode, trace |-> <<>>]
      ELSE [raised |-> FALSE, mode |-> mode,
            trace |-> << Emit("sigStateChanged", <<>>, zoom_start) >>]

UpperCase == <<"A", "C", "E", "N", "O", "P", "R", "S", "T", "U">>
LowerCase == <<"a", "c", "e", "n", "o", "p", "r", "s", "t", "u">>

\* a comparison that is case-sensitive: no folding
lowerChar_identity(c) == c

\* str.lower() on one character
lowerChar(c) ==
    IF \E i \in 1..Len(UpperCase) : UpperCase[i] = c
      THEN LowerCase[CHOOSE i \in 1..Len(UpperCase) : UpperCase[i] = c]
      ELSE c

\* str.lower()
lower(s) == [i \in 1..Len(s) |-> lowerChar(s[i])]

\* setLeftButtonAction(mode)
setLeftButtonActionResult(s) ==
    IF lower(s) = <<"r", "e", "c", "t">> THEN setMouseModeResult(RectMode)
    ELSE IF lower(s) = <<"p", "a", "n">> THEN setMouseModeResult(PanMode)
    ELSE IF lower(s) = <<"c", "u", "r", "s", "o", "r">>
      THEN setMouseModeResult(CursorMode)
    ELSE [raised |-> TRUE, mode |-> mouseMode, trace |-> <<>>]

\* the event loop is between two events: no handler has a record standing
idle == lastEv.kind = "idle"

\* the fields of the viewport when a handler starts
Snapshot ==
    [mouseMode |-> mouseMode, zoom |-> zoom, zoom_start |-> zoom_start,
     viewRange |-> viewRange, menu |-> menu, held |-> held]

\* a mode setter has run with result r
applyModeResult(r) ==
    /\ mouseMode' = r.mode
    /\ trace' = r.trace
    /\ err' = r.raised
    /\ menu' = deliver(menu, r.trace, r.mode)
    /\ pre' = Snapshot
    /\ UNCHANGED <<mouseEnabled, aspectLocked, zoom, zoom_start, viewRange,
                   held, viewOps>>

ModeArgs == 0..4

setMouseMode(mode) ==
    /\ idle
    /\ lastEv' = [kind |-> "setMouseMode", arg |-> mode]
    /\ applyModeResult(setMouseModeResult(mode))

ModeStrings ==
    { <<"p", "a", "n">>, <<"P", "A", "N">>, <<"P", "a", "n">>,
      <<"c", "u", "r", "s", "o", "r">>, <<"C", "u", "R", "s", "O", "r">>,
      <<"r", "e", "c", "t">>, <<"R", "E", "C", "T">>,
      <<"p", "a">>, <<"p", "a", "n", "s">>, <<"z", "o", "o", "m">>, <<>> }

setLeftButtonAction(s) ==
    /\ idle
    /\ lastEv' = [kind |-> "setLeftButtonAction", arg |-> s]
    /\ applyModeResult(setLeftButtonActionResult(s))

\* the strings bound to the triggered signals of the three menu entries
MenuModes ==
    { <<"p", "a", "n">>, <<"c", "u", "r", "s", "o", "r">>, <<"r", "e", "c", "t">> }

\* ViewBoxMenu.set_mouse_mode(mode)
set_mouse_mode(s) ==
    /\ idle
    /\ lastEv' = [kind |-> "set_mouse_mode", arg |-> s]
    /\ applyModeResult(setLeftButtonActionResult(s))

\* ViewBoxMenu.popup
popup ==
    /\ idle
    /\ lastEv' = [kind |-> "popup", arg |-> 0]
    /\ menu' = IF ~menu.valid THEN updateState(menu, mouseMode) ELSE menu
    /\ trace' = << Call("QMenu.popup", <<>>) >>
    /\ err' = FALSE
    /\ pre' = Snapshot
    /\ UNCHANGED <<mouseMode, mouseEnabled, aspectLocked, zoom, zoom_start,
                   viewRange, held, viewOps>>

-----------------------------------------------------------------------------
(* Keyboard and mouse-press handlers *)

Keys == {Key_Shift, Key_Alt, Key_A}

RECURSIVE modifiersOf(_)
\* the modifier flags of the keys in h
modifiersOf(h) ==
    IF h = {} THEN 0
    ELSE LET k == CHOOSE k \in h : TRUE
             flag == IF k = Key_Shift THEN ShiftModifier
                     ELSE IF k = Key_Alt THEN AltModifier ELSE 0
         IN BitOr(flag, modifiersOf(h \ {k}))

\* ev.keyCombination() of the press of key k: the modifiers right after it
keyCombination(k) == toCombined(modifiersOf(held \cup {k}), k)

\* keyPressEvent that arms the modifier whatever the gesture state
keyPressZoom_always(k) == << keyCombination(k) >>

\* keyPressEvent: self.zoom afterwards
keyPressZoom(k) == IF zoom_start = None THEN << keyCombination(k) >> ELSE zoom

\* keyReleaseEvent that clears the modifier whatever the gesture state
keyReleaseZoom_always == None

\* keyReleaseEvent: self.zoom afterwards
keyReleaseZoom == IF zoom_start = None THEN None ELSE zoom

keyPressEvent(k) ==
    /\ idle
    /\ k \notin held
    /\ held' = held \cup {k}
    /\ zoom' = keyPressZoom(k)
    /\ lastEv' = [kind |-> "keyPressEvent", arg |-> k]
    /\ trace' = << Call("ev.ignore", <<>>) >>
    /\ err' = FALSE
    /\ pre' = Snapshot
    /\ UNCHANGED <<mouseMode, mouseEnabled, aspectLocked, zoom_start, viewRange,
                   menu, viewOps>>

\* keyReleaseEvent that also falls back to PanMode
keyReleaseEvent_toPan(k) ==
    /\ idle
    /\ k \in held
    /\ held' = held \ {k}
    /\ zoom' = keyReleaseZoom
    /\ mouseMode' = PanMode
    /\ lastEv' = [kind |-> "keyReleaseEvent", arg |-> k]
    /\ trace' = << Call("ev.ignore", <<>>) >>
    /\ err' = FALSE
    /\ pre' = Snapshot
    /\ UNCHANGED <<mouseEnabled, aspectLocked, zoom_start, viewRange,
                   menu, viewOps>>

keyReleaseEvent(k) ==
    /\ idle
    /\ k \in held
    /\ held' = held \ {k}
    /\ zoom' = keyReleaseZoom
    /\ lastEv' = [kind |-> "keyReleaseEvent", arg |-> k]
    /\ trace' = << Call("ev.ignore", <<>>) >>
    /\ err' = FALSE
    /\ pre' = Snapshot
    /\ UNCHANGED <<mouseMode, mouseEnabled, aspectLocked, zoom_start, viewRange,
                   menu, viewOps>>

\* the combinations that arm a zoom gesture
ZoomCombinations == { <<X_zoom>>, <<Y_zoom>>, <<XY_zoom[1]>>, <<XY_zoom[2]>> }

\* mousePressEvent: self.zoom_start afterwards
mousePressZoomStart(ev) ==
    IF mouseMode = CursorMode /\ zoom \in ZoomCombinations
      THEN mapSceneToView(viewRange, ev.scenePos)
      ELSE zoom_start

\* scene positions of the pointer
Positions == { <<1, 1>>, <<2, 3>> }

PressEvents == [button : {LeftButton, RightButton}, scenePos : Positions]

\* mousePressEvent that accepts the press that starts a gesture
mousePressEvent_acceptStart(ev) ==
    /\ idle
    /\ zoom_start' = mousePressZoomStart(ev)
    /\ lastEv' = [kind |-> "mousePressEvent", arg |-> ev]
    /\ trace' = IF mouseMode = CursorMode /\ zoom \in ZoomCombinations
                  THEN << Call("ev.accept", <<>>) >>
                  ELSE << Call("ev.ignore", <<>>) >>
    /\ err' = FALSE
    /\ pre' = Snapshot
    /\ UNCHANGED <<mouseMode, mouseEnabled, aspectLocked, zoom, viewRange,
                   menu, held, viewOps>>

mousePressEvent(ev) ==
    /\ idle
    /\ zoom_start' = mousePressZoomStart(ev)
    /\ lastEv' = [kind |-> "mousePressEvent", arg |-> ev]
    /\ trace' = << Call("ev.ignore", <<>>) >>
    /\ err' = FALSE
    /\ pre' = Snapshot
    /\ UNCHANGED <<mouseMode, mouseEnabled, aspectLocked, zoom, viewRange,
                   menu, held, viewOps>>

-----------------------------------------------------------------------------
(* mouseDragEvent *)

\* np.array(..., dtype=np.float64) of one bool
asFloat(b) == IF b THEN 1 ELSE 0

\* mask: the mouse-enabled axes, the other axis zeroed when one is pinned
dragMask(axis) ==
    LET m == << asFloat(mouseEnabled[1]), asFloat(mouseEnabled[2]) >>
    IN IF axis /= None THEN [m EXCEPT ![2 - axis[1]] = 0] ELSE m

\* dif = (ev.scenePos() - ev.lastScenePos()) * -1
dragDif(ev) ==
    << -(ev.scenePos[1] - ev.lastScenePos[1]),
       -(ev.scenePos[2] - ev.lastScenePos[2]) >>

\* tr.map(dif * mask) - tr.map(Point(0, 0))
maskedDelta(ev, mask) ==
    invMapDelta(viewRange,
                << dragDif(ev)[1] * mask[1], dragDif(ev)[2] * mask[2] >>)

\* x taken from the unmasked delta whatever the mask
panX_unmasked(ev, mask) == << invMapDelta(viewRange, dragDif(ev))[1] >>

\* x = tr.x() if mask[0] == 1 else None
panX(ev, mask) == IF mask[1] = 1 THEN << maskedDelta(ev, mask)[1] >> ELSE None

\* y = tr.y() if mask[1] == 1 else None
panY(ev, mask) == IF mask[2] = 1 THEN << maskedDelta(ev, mask)[2] >> ELSE None

\* cursorDrag that forgets to clear self.zoom_start on finish
cursorDrag_noClear(ev) ==
    LET end == mapSceneToView(viewRange, ev.scenePos)
        payload == << zoom_start, end, zoom >>
    IN [zoom_start |-> zoom_start,
        viewRange |-> viewRange,
        trace |->
            << Emit("sigCursorMoved", <<ev>>, zoom_start) >>
            \o (IF zoom_start /= None
                  THEN << Emit("sigZoomChanged", payload, zoom_start) >>
                       \o (IF ev.finish
                             THEN << Emit("sigZoomFinished", payload, zoom_start),
                                     Emit("sigZoomChanged", None, zoom_start) >>
                             ELSE <<>>)
                  ELSE <<>>)]

\* cursorDrag without the test of self.zoom_start
cursorDrag_noTest(ev) ==
    LET end == mapSceneToView(viewRange, ev.scenePos)
        payload == << zoom_start, end, zoom >>
    IN [zoom_start |-> IF ev.finish THEN None ELSE zoom_start,
        viewRange |-> viewRange,
        trace |->
            << Emit("sigCursorMoved", <<ev>>, zoom_start),
               Emit("sigZoomChanged", payload, zoom_start) >>
            \o (IF ev.finish
                  THEN << Emit("sigZoomFinished", payload, zoom_start),
                          Emit("sigZoomChanged", None, None) >>
                  ELSE <<>>)]

\* cursorDrag that clears self.zoom_start only after the last emission
cursorDrag_clearLast(ev) ==
    LET end == mapSceneToView(viewRange, ev.scenePos)
        payload == << zoom_start, end, zoom >>
    IN [zoom_start |->
            IF zoom_start /= None /\ ev.finish THEN None ELSE zoom_start,
        viewRange |-> viewRange,
        trace |->
            << Emit("sigCursorMoved", <<ev>>, zoom_start) >>
            \o (IF zoom_start /= None
                  THEN << Emit("sigZoomChanged", payload, zoom_start) >>
                       \o (IF ev.finish
                             THEN << Emit("sigZoomFinished", payload, zoom_start),
                                     Emit("sigZoomChanged", None, zoom_start) >>
                             ELSE <<>>)
                  ELSE <<>>)]

\* Cursor mode, left button
cursorDrag(ev) ==
    LET end == mapSceneToView(viewRange, ev.scenePos)
        payload == << zoom_start, end, zoom >>
    IN [zoom_start |->
            IF zoom_start /= None /\ ev.finish THEN None ELSE zoom_start,
        viewRange |-> viewRange,
        trace |->
            << Emit("sigCursorMoved", <<ev>>, zoom_start) >>
            \o (IF zoom_start /= None
                  THEN << Emit("sigZoomChanged", payload, zoom_start) >>
                       \o (IF ev.finish
                             THEN << Emit("sigZoomFinished", payload, zoom_start),
                                     Emit("sigZoomChanged", None, None) >>
                             ELSE <<>>)
                  ELSE <<>>)]

\* cursorPan that translates both axes, as the pan of the other modes does
cursorPan_bothAxes(ev, mask) ==
    LET x == panX(ev, mask)
        y == panY(ev, mask)
    IN [zoom_start |-> zoom_start,
        viewRange |->
            IF x /= None THEN translateBy(viewRange, x, y) ELSE viewRange,
        trace |->
            << Call("_resetTarget", <<>>) >>
            \o (IF x /= None THEN << Call("translateBy", <<x, y>>) >> ELSE <<>>)
            \o << Emit("sigRangeChangedManually", <<mouseEnabled>>, zoom_start) >>]

\* Cursor mode, any other button
cursorPan(ev, mask) ==
    LET x == panX(ev, mask)
    IN [zoom_start |-> zoom_start,
        viewRange |->
            IF x /= None THEN translateBy(viewRange, x, <<0>>) ELSE viewRange,
        trace |->
            << Call("_resetTarget", <<>>) >>
            \o (IF x /= None THEN << Call("translateBy", <<x, <<0>> >>) >>
                ELSE <<>>)
            \o << Emit("sigRangeChangedManually", <<mouseEnabled>>, zoom_start) >>]

\* pan that notifies only when it has translated
pan_quiet(ev, mask) ==
    LET x == panX(ev, mask)
        y == panY(ev, mask)
    IN IF x /= None \/ y /= None
         THEN [zoom_start |-> zoom_start,
               viewRange |-> translateBy(viewRange, x, y),
               trace |->
                 << Call("_resetTarget", <<>>),
                    Call("translateBy", <<x, y>>),
                    Emit("sigRangeChangedManually", <<mouseEnabled>>, zoom_start) >>]
         ELSE [zoom_start |-> zoom_start, viewRange |-> viewRange,
               trace |-> << Call("_resetTarget", <<>>) >>]

\* other modes, left or middle button
pan(ev, mask) ==
    LET x == panX(ev, mask)
        y == panY(ev, mask)
    IN [zoom_start |-> zoom_start,
        viewRange |->
            IF x /= None \/ y /= None THEN translateBy(viewRange, x, y)
            ELSE viewRange,
        trace |->
            << Call("_resetTarget", <<>>) >>
            \o (IF x /= None \/ y /= None
                  THEN << Call("translateBy", <<x, y>>) >>
                  ELSE <<>>)
            \o << Emit("sigRangeChangedManually", <<mouseEnabled>>, zoom_start) >>]

\* scaleExponents without the test of the aspect lock
scaleExponents_noLock(ev, mask) ==
    << IF mask[1] = 1 THEN -(ev.scenePos[1] - ev.lastScenePos[1]) ELSE 0,
       IF mask[2] = 1 THEN ev.scenePos[2] - ev.lastScenePos[2] ELSE 0 >>

\* the exponents of s = ((mask * 0.02) + 1) ** dif, with dif the screen delta
\* sign-inverted on x and mask[0] zeroed under aspect lock
scaleExponents(ev, mask) ==
    LET m == IF aspectLocked THEN [mask EXCEPT ![1] = 0] ELSE mask
        dx == -(ev.scenePos[1] - ev.lastScenePos[1])
        dy == ev.scenePos[2] - ev.lastScenePos[2]
    IN << IF m[1] = 1 THEN dx ELSE 0, IF m[2] = 1 THEN dy ELSE 0 >>

\* other modes, right button
dragScale(ev, mask) ==
    LET s == scaleExponents(ev, mask)
        x == IF asFloat(mouseEnabled[1]) = 1 THEN << s[1] >> ELSE None
        y == IF asFloat(mouseEnabled[2]) = 1 THEN << s[2] >> ELSE None
        center == mapSceneToView(viewRange, ev.downPos)
    IN [zoom_start |-> zoom_start,
        viewRange |-> scaleBy(viewRange, x, y, center),
        trace |->
            << Call("_resetTarget", <<>>),
               Call("scaleBy", <<x, y, center>>),
               Emit("sigRangeChangedManually", <<mouseEnabled>>, zoom_start) >>]

\* a branch that does nothing
noDrag == [zoom_start |-> zoom_start, viewRange |-> viewRange, trace |-> <<>>]

\* the branch of mouseDragEvent taken
dragBranch(ev, axis, ignore_cursor) ==
    IF mouseMode = CursorMode /\ ~ignore_cursor
      THEN IF ev.button = LeftButton THEN cursorDrag(ev)
           ELSE cursorPan(ev, dragMask(axis))
      ELSE IF ev.button \in {LeftButton, MiddleButton}
             THEN pan(ev, dragMask(axis))
           ELSE IF BitAnd(ev.button, RightButton) /= 0
             THEN dragScale(ev, dragMask(axis))
           ELSE noDrag

Buttons == {LeftButton, MiddleButton, RightButton, BackButton}

\* pointer moves <<from, to>> in the scene
Moves == { << <<1, 1>>, <<2, 3>> >>, << <<2, 3>>, <<1, 1>> >> }

\* the button went down where the previous event of the drag was
DragEvents ==
    { [button |-> b, finish |-> f, scenePos |-> m[2], lastScenePos |-> m[1],
       downPos |-> m[1]] : b \in Buttons, f \in BOOLEAN, m \in Moves }

Axes == { None, <<0>>, <<1>> }

\* a handler that changes the view range uses up one of the MaxViewOps
viewBudget(vr) ==
    /\ vr /= viewRange => viewOps < MaxViewOps
    /\ viewOps' = IF vr /= viewRange THEN viewOps + 1 ELSE viewOps

mouseDragEvent(ev, axis, ignore_cursor) ==
    LET r == dragBranch(ev, axis, ignore_cursor)
    IN /\ idle
       /\ viewBudget(r.viewRange)
       /\ zoom_start' = r.zoom_start
       /\ viewRange' = r.viewRange
       /\ trace' = << Call("ev.accept", <<>>) >> \o r.trace
       /\ lastEv' = [kind |-> "mouseDragEvent",
                     arg |-> [ev |-> ev, axis |-> axis,
                              ignore_cursor |-> ignore_cursor]]
       /\ err' = FALSE
       /\ pre' = Snapshot
       /\ UNCHANGED <<mouseMode, mouseEnabled, aspectLocked, zoom, menu, held>>

-----------------------------------------------------------------------------------------------------------------------------------------------------
(* wheelEvent *)

\* wheelMask without the test of a pinned axis
wheelMask_noAxis(axis) ==
    IF mouseMode = CursorMode THEN <<TRUE, FALSE>> ELSE mouseEnabled

\* the axis mask of a wheel event
wheelMask(axis) ==
    IF mouseMode = CursorMode THEN <<TRUE, FALSE>>
    ELSE IF axis \in { <<0>>, <<1>> }
      THEN [ <<FALSE, FALSE>> EXCEPT ![axis[1] + 1] = mouseEnabled[axis[1] + 1] ]
    ELSE mouseEnabled

\* the setting read from QSettings is on and self.cursor is set and visible;
\* cur is None for no or a hidden cursor, else << cursor.value() >>
centerOnCursor(setting, cur) == setting /\ cur /= None

\* centeredRange that keeps the middle of the old range instead of the cursor
centeredRange_keepMiddle(ev, cur) ==
    LET delta == viewRange[1][2] - viewRange[1][1]
        step == -((delta * ev.delta * 15) \div 12000)
    IN << viewRange[1][1] - step, viewRange[1][1] + 2 * (delta \div 2) + step >>

\* the x range centred on the cursor; step = -delta * (ev.delta() * 0.15 / 120)
centeredRange(ev, cur) ==
    LET delta == viewRange[1][2] - viewRange[1][1]
        step == -((delta * ev.delta * 15) \div 12000)
        pos == cur[1]
    IN << pos - delta \div 2 - step, pos + delta \div 2 + step >>

\* self.state["wheelScaleFactor"], the fraction -1/8 that pg.ViewBox starts with
wheelScaleNum == -1
wheelScaleDen == 8

\* the exponent of s = 1.02 ** (ev.delta() * wheelScaleFactor)
wheelExponent(ev) == (ev.delta * wheelScaleNum) \div wheelScaleDen

\* s = [(None if m is False else s) for m in mask]
wheelScale(ev, mask) ==
    [a \in 1..2 |-> IF mask[a] = FALSE THEN None ELSE << wheelExponent(ev) >>]

\* the branch of wheelEvent taken
wheelBranch(ev, axis, setting, cur) ==
    IF centerOnCursor(setting, cur)
      THEN LET xr == centeredRange(ev, cur)
           IN [viewRange |-> setXRange(viewRange, xr[1], xr[2]),
               trace |-> << Call("setXRange", xr) >>]
      ELSE LET s == wheelScale(ev, wheelMask(axis))
               center == mapSceneToView(viewRange, ev.pos)
           IN [viewRange |-> scaleBy(viewRange, s[1], s[2], center),
               trace |-> << Call("_resetTarget", <<>>),
                            Call("scaleBy", <<s[1], s[2], center>>) >>]

WheelEvents == [delta : {120, -120}, pos : { <<1, 1>> }]

\* where a visible cursor line may stand
CursorValues == { None, <<100>> }

wheelEvent(ev, axis, setting, cur) ==
    LET r == wheelBranch(ev, axis, setting, cur)
    IN /\ idle
       /\ viewBudget(r.viewRange)
       /\ viewRange' = r.viewRange
       /\ trace' = r.trace
                   \o << Call("ev.accept", <<>>),
                         Emit("sigRangeChangedManually", << wheelMask(axis) >>,
                              zoom_start) >>
       /\ lastEv' = [kind |-> "wheelEvent",
                     arg |-> [ev |-> ev, axis |-> axis, setting |-> setting,
                              cursor |-> cur]]
       /\ err' = FALSE
       /\ pre' = Snapshot
       /\ UNCHANGED <<mouseMode, mouseEnabled, aspectLocked, zoom, zoom_start,
                      menu, held>>

-----------------------------------------------------------------------------
(* The host event loop *)

\* the record of a handler, dropped
Idle == [kind |-> "idle", arg |-> 0]

\* the handler has returned; the loop is ready for the next event
eventLoop ==
    /\ ~idle
    /\ lastEv' = Idle
    /\ pre' = None
    /\ trace' = <<>>
    /\ err' = FALSE
    /\ UNCHANGED <<mouseMode, mouseEnabled, aspectLocked, zoom, zoom_start,
                   viewRange, menu, held, viewOps>>

-----------------------------------------------------------------------------
(* The viewport after construction, and its steps *)

\* the range shown at first
InitRange == << <<0, 400>>, <<0, 400>> >>

\* construction with the given mouse-enabled and aspect-lock configurations
\* (the enableMouse and lockAspect arguments passed on to pg.ViewBox); the
\* base class starts in PanMode, no key is held, no modifier is armed
InitWith(enabled, locked) ==
    /\ mouseMode = PanMode
    /\ mouseEnabled \in enabled
    /\ aspectLocked \in locked
    /\ zoom = None
    /\ zoom_start = None
    /\ viewRange = InitRange
    /\ menu = menuInit(mouseMode)
    /\ held = {}
    /\ viewOps = 0
    /\ lastEv = Idle
    /\ pre = None
    /\ trace = <<>>
    /\ err = FALSE

\* one step of the program with the inputs drawn from the given sets
Step(modes, strings, menus, keys, presses, drags, axes, ignores, wheels, settings, cursors) ==
    \/ \E mode \in modes : setMouseMode(mode)
    \/ \E s \in strings : setLeftButtonAction(s)
    \/ \E s \in menus : set_mouse_mode(s)
    \/ popup
    \/ \E k \in keys : keyPressEvent(k)
    \/ \E k \in keys : keyReleaseEvent(k)
    \/ \E ev \in presses : mousePressEvent(ev)
    \/ \E ev \in drags, axis \in axes, ignore_cursor \in ignores :
           mouseDragEvent(ev, axis, ignore_cursor)
    \/ \E ev \in wheels, axis \in axes, setting \in settings, cur \in cursors :
           wheelEvent(ev, axis, setting, cur)
    \/ eventLoop

Init == InitWith(BOOLEAN \X BOOLEAN, BOOLEAN)

Next ==
    Step(ModeArgs, ModeStrings, MenuModes, Keys, PressEvents, DragEvents, Axes,
         BOOLEAN, WheelEvents, BOOLEAN, CursorValues)

Spec == Init /\ [][Next]_vars

-----------------------------------------------------------------------------
(* The same program with the inputs of one concern in full and few others *)

DragsOf(buttons, finishes, moves) ==
    { ev \in DragEvents :
        /\ ev.button \in buttons
        /\ ev.finish \in finishes
        /\ << ev.lastScenePos, ev.scenePos >> \in moves }

OneMove == { << <<1, 1>>, <<2, 3>> >> }
OnePress == { ev \in PressEvents : ev.button = LeftButton /\ ev.scenePos = <<1, 1>> }
OneWheel == { ev \in WheelEvents : ev.delta = 120 }

\* the mode setters and the menu
InitMode == InitWith({ <<TRUE, TRUE>> }, {FALSE})

NextMode ==
    Step(ModeArgs, ModeStrings, MenuModes, {Key_Shift}, OnePress,
         DragsOf({LeftButton}, BOOLEAN, OneMove), {None}, {FALSE},
         OneWheel, {FALSE}, {None})

SpecMode == InitMode /\ [][NextMode]_vars

\* the keyboard, the mouse press and the zoom gesture
InitGesture == InitWith({ <<TRUE, TRUE>> }, {FALSE})

NextGesture ==
    Step({PanMode, CursorMode}, { <<"c", "u", "r", "s", "o", "r">> },
         { <<"p", "a", "n">> }, Keys,
         { ev \in PressEvents : ev.button = LeftButton },
         DragsOf({LeftButton, MiddleButton}, BOOLEAN, OneMove), {None}, BOOLEAN,
         OneWheel, {FALSE}, {None})

SpecGesture == InitGesture /\ [][NextGesture]_vars

\* the drags and the wheel on the view range
InitView == InitWith(BOOLEAN \X BOOLEAN, BOOLEAN)

NextView ==
    Step(ValidModes, { <<"p", "a", "n">> }, { <<"c", "u", "r", "s", "o", "r">> },
         {Key_Shift}, OnePress,
         DragsOf(Buttons, {FALSE}, Moves), Axes, BOOLEAN,
         WheelEvents, BOOLEAN, CursorValues)

SpecView == InitView /\ [][NextView]_vars

-----------------------------------------------------------------------------
(* Properties *)

after(kind) == lastEv.kind = kind

\* the emitted signals of a trace, in order
EmitSeq(tr) == SelectSeq(tr, LAMBDA e : e.op = "emit")

\* the menu entry of a mode: pan, cursor, rectangle
entryOf(mode) == IF mode = PanMode THEN 1 ELSE IF mode = CursorMode THEN 2 ELSE 3

\* C1: setMouseMode(mode) with a mode that is none of PanMode, CursorMode,
\* RectMode raises, leaves the stored mode as it was and emits no
\* sigStateChanged; with one of them it does not raise, stores the mode and
\* emits sigStateChanged exactly once.
C1_SetMouseMode ==
    after("setMouseMode") =>
        IF lastEv.arg \notin {PanMode, CursorMode, RectMode}
          THEN /\ err
               /\ mouseMode = pre.mouseMode
               /\ Emits(trace, "sigStateChanged") = {}
          ELSE /\ ~err
               /\ mouseMode = lastEv.arg
               /\ Cardinality(Emits(trace, "sigStateChanged")) = 1

\* an invalid mode has been refused while the viewport was in Cursor mode
C1_Witness ==
    /\ after("setMouseMode")
    /\ lastEv.arg = 4
    /\ err
    /\ mouseMode = CursorMode
    /\ trace = <<>>

PanSpellings == { <<"p", "a", "n">>, <<"P", "A", "N">>, <<"P", "a", "n">> }
CursorSpellings ==
    { <<"c", "u", "r", "s", "o", "r">>, <<"C", "u", "R", "s", "O", "r">> }
RectSpellings == { <<"r", "e", "c", "t">>, <<"R", "E", "C", "T">> }

\* C2: setLeftButtonAction(s) with s a spelling, in any case, of "pan",
\* "cursor" or "rect" leaves the viewport in PanMode, CursorMode or RectMode
\* respectively and does not raise; with any other string it raises and the
\* mode is as it was.
C2_SetLeftButtonAction ==
    after("setLeftButtonAction") =>
        /\ lastEv.arg \in PanSpellings => ~err /\ mouseMode = PanMode
        /\ lastEv.arg \in CursorSpellings => ~err /\ mouseMode = CursorMode
        /\ lastEv.arg \in RectSpellings => ~err /\ mouseMode = RectMode
        /\ lastEv.arg \notin PanSpellings \cup CursorSpellings \cup RectSpellings
              => err /\ mouseMode = pre.mouseMode

\* a mixed-case "cursor" has switched the viewport from another mode to Cursor
C2_Witness ==
    /\ after("setLeftButtonAction")
    /\ lastEv.arg = <<"C", "u", "R", "s", "O", "r">>
    /\ ~err
    /\ pre.mouseMode /= CursorMode
    /\ mouseMode = CursorMode

\* C3: in every state (the state-change notification is delivered inside the
\* setter) exactly one of the three menu entries is checked, and it is the
\* entry of the viewport's current mode.
C3_MenuMatchesMode ==
    /\ Cardinality({ i \in 1..3 : menu.checked[i] }) = 1
    /\ menu.checked[entryOf(mouseMode)]

\* the menu has switched the viewport from Cursor to Rect mode and shows it
C3_Witness ==
    /\ after("set_mouse_mode")
    /\ pre.mouseMode = CursorMode
    /\ mouseMode = RectMode
    /\ menu.checked = <<FALSE, FALSE, TRUE>>
    /\ pre.menu.checked = <<FALSE, TRUE, FALSE>>

-----------------------------------------------------------------------------
(* The zoom gesture *)

\* the handler that has just run is a drag taken by the Cursor-mode branch with
\* the left button
leftCursorDrag ==
    /\ after("mouseDragEvent")
    /\ pre.mouseMode = CursorMode
    /\ ~lastEv.arg.ignore_cursor
    /\ lastEv.arg.ev.button = LeftButton

\* the zoom-changed emissions of the trace that carry a payload
ZoomPayloads == { i \in Emits(trace, "sigZoomChanged") : trace[i].arg /= None }

\* C4: a mouse-press in Cursor mode with the X-zoom modifier armed records the
\* press position as start point; a left drag in Cursor mode with a gesture in
\* progress emits zoom-changed carrying the recorded start point; when marked
\* finish it emits zoom-finished exactly once and clears the start point,
\* otherwise it emits no zoom-finished and keeps it; a drag with no gesture in
\* progress emits neither signal; and the start point changes only by a
\* mouse-press or by the finishing drag.
C4_GestureLifecycle ==
    /\ (after("mousePressEvent") /\ pre.mouseMode = CursorMode
            /\ pre.zoom = <<X_zoom>>)
         => zoom_start = mapSceneToView(pre.viewRange, lastEv.arg.scenePos)
    /\ (leftCursorDrag /\ pre.zoom_start /= None)
         => /\ ZoomPayloads /= {}
            /\ \A i \in ZoomPayloads : trace[i].arg[1] = pre.zoom_start
            /\ IF lastEv.arg.ev.finish
                 THEN /\ Cardinality(Emits(trace, "sigZoomFinished")) = 1
                      /\ zoom_start = None
                 ELSE /\ Emits(trace, "sigZoomFinished") = {}
                      /\ zoom_start = pre.zoom_start
    /\ (after("mouseDragEvent") /\ pre.zoom_start = None)
         => /\ Emits(trace, "sigZoomChanged") = {}
            /\ Emits(trace, "sigZoomFinished") = {}
    /\ (~idle /\ zoom_start /= pre.zoom_start)
         => \/ after("mousePressEvent")
            \/ leftCursorDrag /\ lastEv.arg.ev.finish /\ zoom_start = None

\* the finishing drag of an X-zoom gesture has emitted zoom-finished once and
\* cleared the start point
C4_Witness ==
    /\ leftCursorDrag
    /\ lastEv.arg.ev.finish
    /\ pre.zoom = <<X_zoom>>
    /\ pre.zoom_start /= None
    /\ Cardinality(Emits(trace, "sigZoomFinished")) = 1
    /\ zoom_start = None

\* C5 (as claimed): a start point is recorded only while the mode is Cursor
C5_GestureOnlyInCursorMode == zoom_start /= None => mouseMode = CursorMode

C7_PressNeedsHeldModifier ==
    (after("mousePressEvent") /\ pre.held = {} /\ pre.zoom_start = None)
      => zoom_start = None

\* C8: a left drag in Cursor mode with no gesture in progress emits
\* cursor-moved exactly once, no zoom-changed, no zoom-finished and no
\* manual-range-change, and leaves the view range as it was.
C8_PlainCursorDrag ==
    (leftCursorDrag /\ pre.zoom_start = None)
      => /\ Cardinality(Emits(trace, "sigCursorMoved")) = 1
         /\ Emits(trace, "sigZoomChanged") = {}
         /\ Emits(trace, "sigZoomFinished") = {}
         /\ Emits(trace, "sigRangeChangedManually") = {}
         /\ Calls(trace, "translateBy") \cup Calls(trace, "scaleBy")
              \cup Calls(trace, "setXRange") = {}
         /\ viewRange = pre.viewRange

\* a left drag in Cursor mode with the modifier armed but no press before it
C8_Witness ==
    /\ leftCursorDrag
    /\ pre.zoom_start = None
    /\ pre.zoom = <<X_zoom>>
    /\ Cardinality(Emits(trace, "sigCursorMoved")) = 1

\* C9: the finishing left drag of a gesture in Cursor mode emits, in this
\* order, cursor-moved(event), zoom-changed(start, end, modifier),
\* zoom-finished with the same payload and zoom-changed with no payload; the
\* start point is still set at the first three and already cleared at the last.
C9_FinishOrder ==
    (leftCursorDrag /\ pre.zoom_start /= None /\ lastEv.arg.ev.finish)
      => LET payload == << pre.zoom_start,
                           mapSceneToView(pre.viewRange, lastEv.arg.ev.scenePos),
                           pre.zoom >>
         IN EmitSeq(trace) =
              << Emit("sigCursorMoved", << lastEv.arg.ev >>, pre.zoom_start),
                 Emit("sigZoomChanged", payload, pre.zoom_start),
                 Emit("sigZoomFinished", payload, pre.zoom_start),
                 Emit("sigZoomChanged", None, None) >>

\* the finishing drag of a gesture has emitted its four signals
C9_Witness ==
    /\ leftCursorDrag
    /\ pre.zoom_start /= None
    /\ lastEv.arg.ev.finish
    /\ Len(EmitSeq(trace)) = 4
    /\ zoom_start = None

-----------------------------------------------------------------------------
(* The drags on the view range *)

\* the handler that has just run is a drag taken by the branch of the other
\* modes (the mode is not Cursor, or cursor interaction is suppressed) with the
\* left or the middle button
panDrag ==
    /\ after("mouseDragEvent")
    /\ pre.mouseMode /= CursorMode \/ lastEv.arg.ignore_cursor
    /\ lastEv.arg.ev.button \in {LeftButton, MiddleButton}

\* the x axis, the y axis is enabled for the drag: mouse-enabled and not the
\* axis left out by a pinned axis
dragEnabledX == mouseEnabled[1] /\ lastEv.arg.axis /= <<1>>
dragEnabledY == mouseEnabled[2] /\ lastEv.arg.axis /= <<0>>

\* C10: a left or middle drag outside the Cursor branch translates exactly the
\* axes enabled by the mask: a translateBy call gives x iff x is enabled and y
\* iff y is enabled, the range of a disabled axis is as it was, there is one
\* call when an axis is enabled and none when both are disabled, and nothing
\* is scaled.
C10_PanOnlyEnabledAxes ==
    panDrag
      => /\ \A i \in Calls(trace, "translateBy") :
               /\ trace[i].arg[1] /= None <=> dragEnabledX
               /\ trace[i].arg[2] /= None <=> dragEnabledY
         /\ ~dragEnabledX => viewRange[1] = pre.viewRange[1]
         /\ ~dragEnabledY => viewRange[2] = pre.viewRange[2]
         /\ Cardinality(Calls(trace, "translateBy"))
              = IF dragEnabledX \/ dragEnabledY THEN 1 ELSE 0
         /\ Calls(trace, "scaleBy") \cup Calls(trace, "setXRange") = {}

\* a left drag in Pan mode with x disabled has moved the y range only
C10_Witness ==
    /\ panDrag
    /\ pre.mouseMode = PanMode
    /\ lastEv.arg.ev.button = LeftButton
    /\ mouseEnabled = <<FALSE, TRUE>>
    /\ viewRange[1] = pre.viewRange[1]
    /\ viewRange[2] /= pre.viewRange[2]

\* the handler that has just run is a drag taken by the branch of the other
\* modes with the right button
scaleDrag ==
    /\ after("mouseDragEvent")
    /\ pre.mouseMode /= CursorMode \/ lastEv.arg.ignore_cursor
    /\ lastEv.arg.ev.button = RightButton

\* the screen delta of the drag that has just run, sign-inverted on x
dragDx == -(lastEv.arg.ev.scenePos[1] - lastEv.arg.ev.lastScenePos[1])
dragDy == lastEv.arg.ev.scenePos[2] - lastEv.arg.ev.lastScenePos[2]

\* C11: a right-button drag outside the Cursor branch calls scaleBy once; an
\* axis disabled in the mouse-enabled configuration is given no factor (None)
\* and an enabled one is given a factor; under aspect lock the x factor of an
\* enabled x axis is 1 (exponent 0) whatever the drag distance, the x range is
\* as it was, and y is scaled by the drag distance unless y is left out by a
\* pinned x axis.
C11_AspectLockedScale ==
    scaleDrag
      => /\ Cardinality(Calls(trace, "scaleBy")) = 1
         /\ \A i \in Calls(trace, "scaleBy") :
               /\ trace[i].arg[1] = None <=> ~mouseEnabled[1]
               /\ trace[i].arg[2] = None <=> ~mouseEnabled[2]
               /\ aspectLocked /\ mouseEnabled[1] => trace[i].arg[1] = <<0>>
               /\ aspectLocked /\ dragEnabledY => trace[i].arg[2] = << dragDy >>
         /\ aspectLocked => viewRange[1] = pre.viewRange[1]

\* a right drag under aspect lock with both axes enabled, over a distance that
\* is not zero on x, has scaled y and left x as it was
C11_Witness ==
    /\ scaleDrag
    /\ aspectLocked
    /\ mouseEnabled = <<TRUE, TRUE>>
    /\ dragDx /= 0
    /\ \E i \in Calls(trace, "scaleBy") :
          trace[i].arg[1] = <<0>> /\ trace[i].arg[2] /= <<0>>
    /\ viewRange[1] = pre.viewRange[1]
    /\ viewRange[2] /= pre.viewRange[2]

-----------------------------------------------------------------------------
(* The wheel on the view range *)

\* the handler that has just run is a wheel event taken by the plain scaling
\* branch: the setting is off or there is no visible cursor
plainWheel ==
    /\ after("wheelEvent")
    /\ ~(lastEv.arg.setting /\ lastEv.arg.cursor /= None)

\* the axis a of the wheel event that has just run is in its axis mask: x only
\* in Cursor mode, else the mouse-enabled axes, only the pinned one if any
inWheelMask(a) ==
    IF pre.mouseMode = CursorMode THEN a = 1
    ELSE /\ mouseEnabled[a]
         /\ lastEv.arg.axis /= None => lastEv.arg.axis = << a - 1 >>

\* C12: a wheel event outside the centred branch calls scaleBy once and
\* setXRange never; every axis of the axis mask is given the one factor
\* 1.02 ^ (delta * wheelScaleFactor) and every other axis none (None), whose
\* range is as it was.
C12_PlainWheelScale ==
    plainWheel
      => /\ Cardinality(Calls(trace, "scaleBy")) = 1
         /\ Calls(trace, "setXRange") = {}
         /\ \A i \in Calls(trace, "scaleBy"), a \in 1..2 :
               trace[i].arg[a] =
                 IF inWheelMask(a)
                   THEN << (lastEv.arg.ev.delta * wheelScaleNum)
                             \div wheelScaleDen >>
                   ELSE None
         /\ \A a \in 1..2 : ~inWheelMask(a) => viewRange[a] = pre.viewRange[a]

\* a wheel event in Pan mode pinned to the y axis, both axes enabled, has
\* scaled y by the factor and left x without a factor
C12_Witness ==
    /\ plainWheel
    /\ pre.mouseMode = PanMode
    /\ lastEv.arg.axis = <<1>>
    /\ mouseEnabled = <<TRUE, TRUE>>
    /\ \E i \in Calls(trace, "scaleBy") :
          trace[i].arg[1] = None /\ trace[i].arg[2] /= None
    /\ viewRange[1] = pre.viewRange[1]
    /\ viewRange[2] /= pre.viewRange[2]

\* the handler that has just run is a wheel event taken by the centred branch:
\* the setting is on and there is a visible cursor
centredWheel ==
    /\ after("wheelEvent")
    /\ lastEv.arg.setting
    /\ lastEv.arg.cursor /= None

\* |v|
Abs(v) == IF v < 0 THEN -v ELSE v

\* C13: a wheel event in the centred branch with the cursor at p and the x
\* range [a, b] calls setXRange once with the range that becomes the x range
\* as given (zero padding); its midpoint is exactly p; its width is
\* (b - a) * (1 - delta / 400), exactly where the fixed-point divisions are
\* exact and to less than three units elsewhere; a positive delta makes the
\* range narrower and a negative one wider; the y range is as it was.
C13_CentredWheel ==
    centredWheel
      => LET p == lastEv.arg.cursor[1]
             d == lastEv.arg.ev.delta
             w == Width(pre.viewRange[1])
         IN /\ Cardinality(Calls(trace, "setXRange")) = 1
            /\ Calls(trace, "scaleBy") = {}
            /\ \A i \in Calls(trace, "setXRange") : trace[i].arg = viewRange[1]
            /\ viewRange[1][1] + viewRange[1][2] = 2 * p
            /\ (w % 2 = 0 /\ (w * d * 15) % 12000 = 0)
                  => 400 * Width(viewRange[1]) = w * (400 - d)
            /\ Abs(400 * Width(viewRange[1]) - w * (400 - d)) < 3 * 400
            /\ d > 0 => Width(viewRange[1]) < w
            /\ d < 0 => Width(viewRange[1]) > w
            /\ viewRange[2] = pre.viewRange[2]

\* one wheel step forwards with the cursor at 100 has turned the x range
\* [0, 400] into [-40, 240]: width 280 around the cursor
C13_Witness ==
    /\ centredWheel
    /\ lastEv.arg.ev.delta = 120
    /\ lastEv.arg.cursor = <<100>>
    /\ pre.viewRange[1] = <<0, 400>>
    /\ viewRange[1] = <<-40, 240>>
    /\ viewRange[2] = pre.viewRange[2]

-----------------------------------------------------------------------------
(* Disposition of the events *)

\* how often the handler that has just run has accepted, has ignored its event
accepted == Cardinality(Calls(trace, "ev.accept"))
ignored == Cardinality(Calls(trace, "ev.ignore"))

\* C14: every drag event and every wheel event is accepted and never ignored,
\* whatever the mode, the button and the gesture state; every key press, key
\* release and mouse press is ignored and never accepted, also the key press
\* that arms the modifier and the mouse press that starts a gesture.
C14_Disposition ==
    /\ (after("mouseDragEvent") \/ after("wheelEvent"))
          => accepted = 1 /\ ignored = 0
    /\ (after("keyPressEvent") \/ after("keyReleaseEvent")
            \/ after("mousePressEvent"))
          => accepted = 0 /\ ignored = 1

\* the mouse press that has started a gesture has been ignored
C14_Witness ==
    /\ after("mousePressEvent")
    /\ pre.zoom_start = None
    /\ zoom_start /= None
    /\ ignored = 1
    /\ accepted = 0

-----------------------------------------------------------------------------
(* The mode *)

\* the handlers that set the mode
ModeSetters == {"setMouseMode", "setLeftButtonAction", "set_mouse_mode"}

\* C15: the mode is PanMode, CursorMode or RectMode in every reachable state,
\* and a handler that is not a mode setter (a key, mouse-press, drag or wheel
\* handler, the popup with its menu refresh) leaves the mode as it found it.
C15_ModeOnlyBySetters ==
    /\ mouseMode \in {PanMode, CursorMode, RectMode}
    /\ (~idle /\ lastEv.kind \notin ModeSetters) => mouseMode = pre.mouseMode

\* a key release in Cursor mode, reached through a setter, has left the mode
C15_Witness ==
    /\ after("keyReleaseEvent")
    /\ pre.mouseMode = CursorMode
    /\ mouseMode = CursorMode

-----------------------------------------------------------------------------
(* Order of the steps of a drag *)

\* the handler that has just run is a drag taken by a branch that can change
\* the transform: the Cursor branch with a button other than the left one, or
\* the branch of the other modes with the left, middle or right button
transformDrag ==
    /\ after("mouseDragEvent")
    /\ IF pre.mouseMode = CursorMode /\ ~lastEv.arg.ignore_cursor
         THEN lastEv.arg.ev.button /= LeftButton
         ELSE lastEv.arg.ev.button \in {LeftButton, MiddleButton, RightButton}

\* C16: a drag of a branch that can change the transform does, after
\* accepting the event and in this order: _resetTarget(), then at most one
\* call of translateBy or scaleBy, then one emission of
\* sigRangeChangedManually carrying the mouse-enabled axes; it calls and emits
\* nothing else, and the emission is there also when nothing was translated.
C16_DragStepOrder ==
    transformDrag
      => /\ Len(trace) \in {3, 4}
         /\ trace[1] = Call("ev.accept", <<>>)
         /\ trace[2] = Call("_resetTarget", <<>>)
         /\ Len(trace) = 4
               => /\ trace[3].op = "call"
                  /\ trace[3].name \in {"translateBy", "scaleBy"}
         /\ trace[Len(trace)]
               = Emit("sigRangeChangedManually", <<mouseEnabled>>, zoom_start)
         /\ Cardinality(Emits(trace, "sigRangeChangedManually")) = 1
         /\ Len(EmitSeq(trace)) = 1

\* a left drag in Pan mode with both axes disabled has translated nothing and
\* has still sent the notification
C16_Witness ==
    /\ transformDrag
    /\ pre.mouseMode = PanMode
    /\ lastEv.arg.ev.button = LeftButton
    /\ mouseEnabled = <<FALSE, FALSE>>
    /\ Calls(trace, "translateBy") = {}
    /\ Len(trace) = 3
    /\ Emits(trace, "sigRangeChangedManually") = {3}

-----------------------------------------------------------------------------
(* The drag with another button in Cursor mode *)

\* the handler that has just run is a drag taken by the Cursor branch with a
\* button other than the left one
otherCursorDrag ==
    /\ after("mouseDragEvent")
    /\ pre.mouseMode = CursorMode
    /\ ~lastEv.arg.ignore_cursor
    /\ lastEv.arg.ev.button /= LeftButton

\* C17: a drag in Cursor mode with a button other than the left one moves the
\* x range at most (a translateBy call gives an x offset and 0 for y, nothing
\* is scaled, the width of the x range and the whole y range are as they
\* were), emits none of sigCursorMoved, sigZoomChanged, sigZoomFinished, and
\* leaves the armed modifier and the start point of the gesture as they were.
C17_CursorModeOtherButton ==
    otherCursorDrag
      => /\ \A i \in Calls(trace, "translateBy") :
               trace[i].arg[1] /= None /\ trace[i].arg[2] = <<0>>
         /\ Calls(trace, "scaleBy") \cup Calls(trace, "setXRange") = {}
         /\ viewRange[2] = pre.viewRange[2]
         /\ Width(viewRange[1]) = Width(pre.viewRange[1])
         /\ Emits(trace, "sigCursorMoved") \cup Emits(trace, "sigZoomChanged")
              \cup Emits(trace, "sigZoomFinished") = {}
         /\ zoom = pre.zoom
         /\ zoom_start = pre.zoom_start

\* a right drag in Cursor mode during a gesture has moved the x range, and the
\* gesture is as it was
C17_Witness ==
    /\ otherCursorDrag
    /\ lastEv.arg.ev.button = RightButton
    /\ pre.zoom_start /= None
    /\ zoom_start = pre.zoom_start
    /\ viewRange[1] /= pre.viewRange[1]
    /\ viewRange[2] = pre.viewRange[2]
    /\ Emits(trace, "sigZoomChanged") = {}

-----------------------------------------------------------------------------
(* Disabled axes *)

\* the axis mask sent with sigRangeChangedManually by the wheel event that has
\* just run
broadcastMask == trace[CHOOSE i \in Emits(trace, "sigRangeChangedManually") : TRUE].arg[1]

\* C18: a drag or wheel event leaves the range of every axis disabled for
\* mouse interaction as it was, and a wheel event changes the range only of
\* axes that are in the axis mask it sends with sigRangeChangedManually; in
\* every mode, with or without a pinned axis, in the centred and in the plain
\* branch.
C18_DisabledAxesKept ==
    /\ (after("mouseDragEvent") \/ after("wheelEvent"))
          => \A a \in 1..2 : ~mouseEnabled[a] => viewRange[a] = pre.viewRange[a]
    /\ after("wheelEvent")
          => \A a \in 1..2 :
                viewRange[a] /= pre.viewRange[a] => broadcastMask[a]

-----------------------------------------------------------------------------
(* The gesture and the keyboard *)

\* the handler that has just run is a key press or a key release
keyEvent == after("keyPressEvent") \/ after("keyReleaseEvent")

\* the zoom payloads (start, end, modifier) the handler that has just run has
\* emitted with sigZoomChanged and sigZoomFinished
GesturePayloads ==
    { trace[i].arg : i \in { j \in Emits(trace, "sigZoomChanged")
                                    \cup Emits(trace, "sigZoomFinished") :
                               trace[j].arg /= None } }

\* C19: a key press or key release during a gesture changes neither the armed
\* modifier nor the start point; from the mouse press that records the start
\* point on, no handler changes the modifier, and none but a mouse press
\* (which records a start point) and the finishing drag (which clears it)
\* changes the start point; so every sigZoomChanged and sigZoomFinished
\* payload carries the start point and the modifier as they are since that
\* press, and the modifier of a gesture is X_zoom, Y_zoom or one of XY_zoom.
C19_GestureStableUnderKeys ==
    /\ (keyEvent /\ pre.zoom_start /= None)
          => zoom = pre.zoom /\ zoom_start = pre.zoom_start
    /\ (~idle /\ pre.zoom_start /= None)
          => /\ zoom = pre.zoom
             /\ zoom_start /= pre.zoom_start
                  => \/ after("mousePressEvent")
                     \/ leftCursorDrag /\ lastEv.arg.ev.finish
    /\ ~idle
          => \A pl \in GesturePayloads :
                /\ pl[1] = pre.zoom_start
                /\ pl[3] = pre.zoom
                /\ pl[3] \in ZoomCombinations
    /\ zoom_start /= None => zoom \in ZoomCombinations

\* another key has been pressed during a gesture armed with Shift, and the
\* gesture is as it was
C19_Witness ==
    /\ after("keyPressEvent")
    /\ lastEv.arg = Key_Alt
    /\ pre.zoom_start /= None
    /\ zoom_start = pre.zoom_start
    /\ zoom = <<X_zoom>>

-----------------------------------------------------------------------------
(* The refresh of the menu *)

\* the menus with no or one entry of the exclusive group checked
Menus ==
    [checked : { <<FALSE, FALSE, FALSE>>, <<TRUE, FALSE, FALSE>>,
                 <<FALSE, TRUE, FALSE>>, <<FALSE, FALSE, TRUE>> },
     valid : BOOLEAN]

\* C20: updateState() run twice gives the checked entries and the flag that
\* one run gives, for every menu and mode and for the menu as it is; the valid
\* flag is true after construction and after every handler, so also after
\* every sigStateChanged; and popup() shows the menu (QMenu.popup once) with
\* the checked entries and the flag as they were.
C20_MenuRefresh ==
    /\ \A m \in Menus \cup {menu}, mode \in ValidModes :
          updateState(updateState(m, mode), mode) = updateState(m, mode)
    /\ menu.valid
    /\ after("popup")
          => /\ menu = pre.menu
             /\ Cardinality(Calls(trace, "QMenu.popup")) = 1

\* the menu has been popped up in Cursor mode, after a change of the mode,
\* with the cursor entry checked before and after
C20_Witness ==
    /\ after("popup")
    /\ mouseMode = CursorMode
    /\ pre.menu.valid
    /\ pre.menu.checked = <<FALSE, TRUE, FALSE>>
    /\ menu.checked = <<FALSE, TRUE, FALSE>>

====
